---- MODULE Spec2Model ----
(***************************************************************************)
(* Batch orchestration and checkpoint/resume pipeline of lsr-gpt-generic:  *)
(* define_batches, match_batch_results, the driver loop of main() with its *)
(* single retry, classify_lsr_remarks with its response extraction, and    *)
(* the consolidation of the batch artifacts.                               *)
(*                                                                         *)
(* Conventions.  Texts (file names, paths, responses, JSON keys) are       *)
(* sequences of tokens, each token a string: a token is one character      *)
(* ("{", "}", "_", ".", "/", a digit, a newline written "NL") or an        *)
(* unbroken run of characters that holds none of those (a word, a run      *)
(* identifier, a list of JSON members).  Item indices are 0-based as in    *)
(* the source; lsr_reports[i + 1] is the remark of item i.  A probability  *)
(* is an integer percentage; a score is the fraction [num, den].  A list   *)
(* of JSON members may be laid out over several lines but holds no blank   *)
(* line.                                                                   *)
(***************************************************************************)
EXTENDS Integers, Sequences, FiniteSets, TLC

\* ------------------------------------------------------------------ bounds
MaxItems == 3          \* reports of the driver's dataset: 0..MaxItems
MaxBatchSize == 2      \* BATCH_SIZE of the driver: 0..MaxBatchSize
MaxCeiling == 1        \* MAX_BATCHES of the driver: 0..MaxCeiling
PlanMaxItems == 12     \* define_batches alone: item counts 0..PlanMaxItems
PlanMaxBatchSize == 6  \* define_batches alone: batch sizes 0..PlanMaxBatchSize
ScanMaxItems == 3      \* match_batch_results alone: item counts
ScanMaxFileId == 4     \* match_batch_results alone: batch ids of files on disk
MaxRespLen == 4        \* response extraction alone: tokens in a response
MaxRemarks == 3        \* classify_lsr_remarks alone: remarks in the list

VARIABLES
    lsr_reports,      \* the ordered remarks of the dataset (main: lsr_reports['remark'])
    BATCH_SIZE,       \* configured batch size
    MAX_BATCHES,      \* configured ceiling, 0 = no limit
    results_dir,      \* RESULTS_OUTPUT: file name -> content
    batches,          \* the batch plan: batch id -> [indices, processed]
    pc,               \* position of main()
    batch_id,         \* loop variable of the driver loop
    processed_lsrs,   \* result of the last classify_lsr_remarks, or None
    output_lsrs,      \* the consolidated table, or None
    error,            \* the exception that ended the invocation, or "none"
    attempts,         \* this invocation: batch id -> calls of classify_lsr_remarks
    api_calls,        \* this invocation: item -> calls of ChatCompletion.create
    pace,             \* this invocation: [last, unpaced] of the call/pause sequence
    writes,           \* all invocations: batch id -> calls of write_results_json
    at_start,         \* results_dir as the running invocation found it
    last_fatal,       \* the batch whose retry ended the invocation before, or -1
    result,           \* a function checked alone: its input (extraction: the response text)
    record            \* a function checked alone: its outcome for that input

vars == <<lsr_reports, BATCH_SIZE, MAX_BATCHES, results_dir, batches, pc, batch_id,
          processed_lsrs, output_lsrs, error, attempts, api_calls, pace, writes,
          at_start, last_fatal, result, record>>

\* A local of main() before its first assignment, None, or a value
Unbound == [state |-> "unbound", value |-> <<>>]
None == [state |-> "None", value |-> <<>>]
Value(v) == [state |-> "value", value |-> v]

\* ------------------------------------------------------------ text helpers
RECURSIVE StrDigits(_)
\* str(n) for n >= 0, as digit tokens
StrDigits(n) ==
    LET d == <<"0", "1", "2", "3", "4", "5", "6", "7", "8", "9">>[(n % 10) + 1]
    IN IF n < 10 THEN <<d>> ELSE Append(StrDigits(n \div 10), d)

DigitValue(c) ==
    CASE c = "0" -> 0 [] c = "1" -> 1 [] c = "2" -> 2 [] c = "3" -> 3 [] c = "4" -> 4
      [] c = "5" -> 5 [] c = "6" -> 6 [] c = "7" -> 7 [] c = "8" -> 8 [] c = "9" -> 9

Digits == {"0", "1", "2", "3", "4", "5", "6", "7", "8", "9"}

\* int(s) succeeds: s is a non-empty sequence of digit tokens
IsDigits(s) == s # <<>> /\ \A i \in 1..Len(s) : s[i] \in Digits

RECURSIVE IntOf(_)
\* int(s) for a non-empty sequence of digit tokens
IntOf(s) ==
    IF Len(s) = 1 THEN DigitValue(s[1])
    ELSE 10 * IntOf(SubSeq(s, 1, Len(s) - 1)) + DigitValue(s[Len(s)])

\* s starts with sep at position i
MatchAt(s, sep, i) ==
    /\ i + Len(sep) - 1 <= Len(s)
    /\ \A k \in 1..Len(sep) : s[i + k - 1] = sep[k]

RECURSIVE SplitFrom(_, _, _, _)
\* str.split(sep), scanning from position i with the current piece starting at from
SplitFrom(s, sep, from, i) ==
    IF i > Len(s) THEN <<SubSeq(s, from, Len(s))>>
    ELSE IF MatchAt(s, sep, i)
         THEN <<SubSeq(s, from, i - 1)>> \o SplitFrom(s, sep, i + Len(sep), i + Len(sep))
         ELSE SplitFrom(s, sep, from, i + 1)

\* str.split(sep): the pieces between the non-overlapping occurrences of sep
Split(s, sep) == SplitFrom(s, sep, 1, 1)

Last(pieces) == pieces[Len(pieces)]

\* str.endswith(suffix)
EndsWith(s, suffix) ==
    /\ Len(suffix) <= Len(s)
    /\ SubSeq(s, Len(s) - Len(suffix) + 1, Len(s)) = suffix

\* sub in s, for a one-token sub
Contains(s, tok) == \E i \in 1..Len(s) : s[i] = tok

\* ------------------------------------------------------------ the dataset
\* An empty remark as read_ibw_lsrs leaves it: NaN replaced by one blank
BlankRemark == " "

\* The remarks of a dataset of n reports; with blank_first its first remark is empty
Reports(n, blank_first) ==
    [i \in 1..n |-> IF blank_first /\ i = 1 THEN BlankRemark ELSE "r" \o ToString(i - 1)]

\* ------------------------------------------------------------ BatchPlanner
Batch(start, end) == [indices |-> <<start, end>>, processed |-> FALSE]

\* define_batches with the trailing partial batch left out
define_batches_no_partial(num_reports, batch_size) ==
    IF batch_size = 0 THEN (0 :> Batch(0, num_reports - 1))
    ELSE [batch \in 0..((num_reports \div batch_size) - 1) |->
              Batch(batch_size * batch, batch_size * (batch + 1) - 1)]

define_batches(num_reports, batch_size) ==
    IF batch_size = 0 THEN (batch_size :> Batch(0, num_reports - 1))
    ELSE LET full_batches == num_reports \div batch_size
             partial_batch == num_reports % batch_size
             full == [batch \in 0..(full_batches - 1) |->
                          Batch(batch_size * batch, batch_size * (batch + 1) - 1)]
         IN IF partial_batch > 0
            THEN full @@ (full_batches :>
                            Batch(batch_size * full_batches,
                                  (batch_size * full_batches) + partial_batch - 1))
            ELSE full

\* The keys of a plan in iteration order (insertion order, which is ascending)
BatchIds(plan) == DOMAIN plan

\* ------------------------------------------------------------ file names
\* hash_filename(LSR_FILE) of the dataset being processed, and of another dataset
\* shortuuid's uuid(name): the uuid5 of the name, one identifier per name
shortuuid_uuid(name) == [uuid5 |-> name]

\* hash_filename: stripped_filename = str(file_path).split('/')[-1], hashed
hash_filename(file_path) == shortuuid_uuid(Last(Split(file_path, <<"/">>)))

\* The identifier of the dataset of the driver's runs, and that of another dataset
LsrUuid == "uuidOfLsrFile"
OtherUuid == "uuidOfOtherFile"

RESULTS_OUTPUT == <<".", "/", "results", "/">>
JsonExt == <<".", "json">>

\* f"{lsr_uuid}_{batch_id}.json"
batch_filename(uuid, id) == <<uuid, "_">> \o StrDigits(id) \o JsonExt

\* f"{lsr_uuid}_classified.csv"
classified_filename(uuid) == <<uuid, "_", "classified", ".", "csv">>

\* os.path.join(dir_path, file), dir_path ending in "/"
path_join(dir_path, file) == dir_path \o file

\* get_files_in_dir: the paths of the files of the directory with the extension
get_files_in_dir(dir, extension) ==
    {path_join(RESULTS_OUTPUT, file) : file \in {f \in DOMAIN dir : EndsWith(f, extension)}}

\* batch_id = json_file.split("/")[-1].split("_")[-1].split(".")[0]
IdText(json_file) ==
    Split(Last(Split(Last(Split(json_file, <<"/">>)), <<"_">>)), <<".">>)[1]

\* int(batch_id), where it succeeds
BatchIdOf(json_file) == IntOf(IdText(json_file))

\* ------------------------------------------------------------ CheckpointScanner
\* The scan marks nothing
SetProcessed_none(plan, ids) == plan

\* The scan flips the flag of a batch it finds a file for
SetProcessed_toggle(plan, ids) ==
    [b \in DOMAIN plan |-> IF b \in ids THEN [plan[b] EXCEPT !.processed = ~@] ELSE plan[b]]

SetProcessed(plan, ids) ==
    [b \in DOMAIN plan |-> IF b \in ids THEN [plan[b] EXCEPT !.processed = TRUE] ELSE plan[b]]

\* The files the scan takes for artifacts of the run, without the uuid filter
result_files_any_uuid(file_uuid, dir) == get_files_in_dir(dir, JsonExt)

\* list(filter(lambda x: file_uuid in x, get_files_in_dir(results_path, ".json")))
result_files_of(file_uuid, dir) ==
    {x \in get_files_in_dir(dir, JsonExt) : Contains(x, file_uuid)}

\* match_batch_results: its possible outcomes, one per order of the directory
\* listing that makes a difference.  int(batch_id) raises ValueError for a text
\* that is no number and batches[int(batch_id)] raises KeyError for an id that is
\* no key of the plan; the files listed before the one that raises are marked.
match_batch_results(file_uuid, plan, dir) ==
    LET result_files == result_files_of(file_uuid, dir)
        numbered == {f \in result_files : IsDigits(IdText(f))}
        known == {f \in numbered : BatchIdOf(f) \in DOMAIN plan}
        ids(files) == {BatchIdOf(f) : f \in files}
        raised == (IF numbered # result_files THEN {"ValueError"} ELSE {})
                      \cup (IF known # numbered THEN {"KeyError"} ELSE {})
    IN IF result_files = {}
       THEN {[batches |-> plan, error |-> "none"]}
       ELSE IF raised = {}
            THEN {[batches |-> SetProcessed(plan, ids(known)), error |-> "none"]}
            ELSE {[batches |-> SetProcessed(plan, ids(seen)), error |-> e] :
                      seen \in SUBSET known, e \in raised}

\* ------------------------------------------------------------ ScoreFunction
Classes == <<"MINOR", "MODERATE", "SERIOUS", "SEVERE", "CATASTROPHIC">>

ClassSet == {Classes[k] : k \in 1..5}

RaisedBy(exc) == [ok |-> FALSE, exc |-> exc]

\* The argument probs of ffsi_score: a dict, a list, or a value of another type
Dict(d) == [type |-> "dict", v |-> d]
List(l) == [type |-> "list", v |-> l]
Other(x) == [type |-> "other", v |-> x]

\* lines 162-168: probs[c] / 100 * weight summed over the classes, in hundredths;
\* a missing class key raises KeyError
ffsi_score_dict(d) ==
    IF ~(ClassSet \subseteq DOMAIN d) THEN RaisedBy("KeyError")
    ELSE [ok |-> TRUE,
          value |-> d["MINOR"] * 1 + d["MODERATE"] * 2 + d["SERIOUS"] * 3 + d["SEVERE"] * 4
                        + d["CATASTROPHIC"] * 5]

\* lines 171-177: the same over probs[0..4]; a shorter list raises IndexError
ffsi_score_list(l) ==
    IF Len(l) < 5 THEN RaisedBy("IndexError")
    ELSE [ok |-> TRUE, value |-> l[1] * 1 + l[2] * 2 + l[3] * 3 + l[4] * 4 + l[5] * 5]

\* ffsi_score with every class weighted 1
ffsi_score_unweighted(probs, normalize) ==
    LET v == probs.v
        sum == IF probs.type = "dict"
               THEN IF ~(ClassSet \subseteq DOMAIN v) THEN RaisedBy("KeyError")
                    ELSE [ok |-> TRUE,
                          value |-> v["MINOR"] + v["MODERATE"] + v["SERIOUS"] + v["SEVERE"]
                                        + v["CATASTROPHIC"]]
               ELSE IF probs.type = "list"
               THEN IF Len(v) < 5 THEN RaisedBy("IndexError")
                    ELSE [ok |-> TRUE, value |-> v[1] + v[2] + v[3] + v[4] + v[5]]
               ELSE RaisedBy("UnboundLocalError")
    IN IF ~sum.ok THEN sum
       ELSE [ok |-> TRUE,
             value |-> [num |-> sum.value, den |-> IF normalize THEN 500 ELSE 100]]

\* ffsi_score: the score as the fraction num / den.  For a probs that is neither a
\* dict nor a list no branch assigns the local ffsi_score and its first use raises
\* UnboundLocalError; "if normalize: ffsi_score /= 5" divides by 5.
ffsi_score(probs, normalize) ==
    LET sum == IF probs.type = "dict" THEN ffsi_score_dict(probs.v)
               ELSE IF probs.type = "list" THEN ffsi_score_list(probs.v)
               ELSE RaisedBy("UnboundLocalError")
    IN IF ~sum.ok THEN sum
       ELSE [ok |-> TRUE,
             value |-> [num |-> sum.value, den |-> IF normalize THEN 500 ELSE 100]]

\* ------------------------------------------------------------ responses
Distribution(p1, p2, p3, p4, p5) ==
    [c \in ClassSet |-> CASE c = "MINOR" -> p1 [] c = "MODERATE" -> p2 [] c = "SERIOUS" -> p3
                          [] c = "SEVERE" -> p4 [] c = "CATASTROPHIC" -> p5]

ZeroProbs == Distribution(0, 0, 0, 0, 0)

\* The member lists a text may hold, each one token, and the dict each one denotes:
\* "ZEROS" is the all-zero list the source substitutes and sends for an empty remark
MemberTokens == {"ZEROS", "M100", "C100", "MIXED", "NOCAT"}

MembersDict(tok) ==
    CASE tok = "ZEROS" -> ZeroProbs
      [] tok = "M100" -> Distribution(100, 0, 0, 0, 0)
      [] tok = "C100" -> Distribution(0, 0, 0, 0, 100)
      [] tok = "MIXED" -> Distribution(10, 20, 40, 20, 10)
      [] tok = "NOCAT" -> [c \in ClassSet \ {"CATASTROPHIC"} |-> 25]

\* json.loads of a text: an object whose braces enclose, white space aside, nothing
\* (the empty dict) or one list of members; anything else raises JSONDecodeError
json_loads(text) ==
    LET inner == SubSeq(text, 2, Len(text) - 1)
        solid == SelectSeq(inner, LAMBDA t : t # "NL")
    IN IF Len(text) < 2 \/ text[1] # "{" \/ text[Len(text)] # "}"
       THEN RaisedBy("JSONDecodeError")
       ELSE IF solid = <<>> THEN [ok |-> TRUE, value |-> <<>>]
       ELSE IF Len(solid) = 1 /\ solid[1] \in MemberTokens
            THEN [ok |-> TRUE, value |-> MembersDict(solid[1])]
            ELSE RaisedBy("JSONDecodeError")

\* result.split('}')[-1].split("\n\n")[-1]
response_extra_of(res) == Last(Split(Last(Split(res, <<"}">>)), <<"NL", "NL">>))

\* result.split('{')[-1].split('}')[0]
response_classes_of(res) == Split(Last(Split(res, <<"{">>)), <<"}">>)[1]

\* The extraction with the substitution made whenever the text holds no "{"
extract_record_no_brace(remark, res) ==
    LET response_extra == response_extra_of(res)
        response_classes == IF ~Contains(res, "{") THEN <<"ZEROS">>
                            ELSE response_classes_of(res)
        probs_dict == json_loads(<<"{">> \o response_classes \o <<"}">>)
        score == ffsi_score(Dict(probs_dict.value), FALSE)
    IN IF ~probs_dict.ok THEN probs_dict
       ELSE IF ~score.ok THEN score
       ELSE [ok |-> TRUE, value |-> <<remark, probs_dict.value, score.value, response_extra>>]

\* classify_lsr_remarks, one item, from the response received to the record stored
extract_record(remark, res) ==
    LET response_extra == response_extra_of(res)
        found == response_classes_of(res)
        response_classes == IF found = response_extra THEN <<"ZEROS">> ELSE found
        probs_dict == json_loads(<<"{">> \o response_classes \o <<"}">>)
        score == ffsi_score(Dict(probs_dict.value), FALSE)
    IN IF ~probs_dict.ok THEN probs_dict
       ELSE IF ~score.ok THEN score
       ELSE [ok |-> TRUE, value |-> <<remark, probs_dict.value, score.value, response_extra>>]

\* The text query_gpt returns for an empty or blank query, without calling the service
NoRemarkResult == <<"{", "ZEROS", "}", "NO REMARK FOR THIS LSR!">>

\* query_gpt's test of its query: a call is made for it
IsQueried(query) == query # "" /\ query # " "

\* ------------------------------------------------------------ the service
\* The failures main() catches and retries after (its except clause)
TransientErrors == {"RateLimitError", "ServiceUnavailableError", "APIError", "OSError"}

\* A failure of ChatCompletion.create that main() does not catch
OtherErrors == {"InvalidRequestError"}

Reply(text) == [raise |-> "none", text |-> text]
Raise(exc) == [raise |-> exc, text |-> <<>>]

\* The call/pause sequence of an invocation: its last event, and whether some call
\* followed the call before it with no pause in between
OnCall(p) == [last |-> "call", unpaced |-> p.unpaced \/ p.last = "call"]
OnPause(p) == [last |-> "pause", unpaced |-> p.unpaced]
NoPace == [last |-> "none", unpaced |-> FALSE]

RECURSIVE ClassifyFrom(_, _, _, _, _, _)
\* The loop of classify_lsr_remarks from item index on: processed holds the records
\* so far, calls the items a call was made for, p the call/pause sequence
ClassifyFrom(remarks, replies, index, processed, calls, p) ==
    IF index = Len(remarks)
    THEN [ok |-> TRUE, processed |-> processed, calls |-> calls, pace |-> p]
    ELSE LET remark == remarks[index + 1]
             queried == IsQueried(remark)
             calls1 == IF queried THEN Append(calls, index) ELSE calls
             p1 == IF queried THEN OnCall(p) ELSE p
             rec == extract_record(remark, IF queried THEN replies[index].text
                                                      ELSE NoRemarkResult)
         IN IF queried /\ replies[index].raise # "none"
            THEN [ok |-> FALSE, exc |-> replies[index].raise, calls |-> calls1, pace |-> p1]
            ELSE IF ~rec.ok
            THEN [ok |-> FALSE, exc |-> rec.exc, calls |-> calls1, pace |-> p1]
            ELSE ClassifyFrom(remarks, replies, index + 1,
                              processed @@ (index :> rec.value), calls1,
                              IF index < Len(remarks) - 1 THEN OnPause(p1) ELSE p1)

\* classify_lsr_remarks with a pause after every item, the last one included
classify_lsr_remarks_always_wait(remarks, replies, p) ==
    LET out == ClassifyFrom(remarks, replies, 0, <<>>, <<>>, p)
    IN IF out.ok /\ Len(remarks) > 0 THEN [out EXCEPT !.pace = OnPause(out.pace)] ELSE out

\* classify_lsr_remarks(lsr_remarks_list, impact_defs, wait_time=WAIT_TIME), with
\* starting_idx and limit left at 0 as main() leaves them; replies[i] is what the
\* service answers to the call for item i
classify_lsr_remarks(remarks, replies, p) ==
    ClassifyFrom(remarks, replies, 0, <<>>, <<>>, p)

\* ------------------------------------------------------------ artifacts
\* json.dump of the records: the integer keys become strings
json_dump(processed) ==
    [key \in {StrDigits(i) : i \in DOMAIN processed} |-> processed[IntOf(key)]]

\* The file is written to a place other than the results directory
write_results_json_elsewhere(dir, fname, results) == dir

\* write_results_json(results, fname): the file is created or overwritten
write_results_json(dir, fname, results) ==
    [f \in (DOMAIN dir) \cup {fname} |-> IF f = fname THEN json_dump(results) ELSE dir[f]]

\* read_json_results(json_file_path)
read_json_results(dir, json_file) == dir[Last(Split(json_file, <<"/">>))]

Bump(f, k) == IF k \in DOMAIN f THEN [f EXCEPT ![k] = @ + 1] ELSE f @@ (k :> 1)

Count(f, k) == IF k \in DOMAIN f THEN f[k] ELSE 0

\* ------------------------------------------------------------ ResultConsolidator
\* A cell of the output table: None, or a value
EmptyCell == [set |-> FALSE]
Cell(v) == [set |-> TRUE, v |-> v]

\* p / 100
Percent(p) == [num |-> p, den |-> 100]

\* A row of lsr_reports.copy() with the seven new columns set to None
EmptyRow(remark) ==
    [remark |-> remark, MINOR |-> EmptyCell, MODERATE |-> EmptyCell, SERIOUS |-> EmptyCell,
     SEVERE |-> EmptyCell, CATASTROPHIC |-> EmptyCell, FFSI |-> EmptyCell, EXTRA |-> EmptyCell]

\* The row after the seven assignments output_lsrs.loc[idx][...] = ... for one
\* record of an artifact, where they reach the table
FilledRow(row, rec) ==
    [row EXCEPT !.MINOR = Cell(Percent(rec[2]["MINOR"])),
                !.MODERATE = Cell(Percent(rec[2]["MODERATE"])),
                !.SERIOUS = Cell(Percent(rec[2]["SERIOUS"])),
                !.SEVERE = Cell(Percent(rec[2]["SEVERE"])),
                !.CATASTROPHIC = Cell(Percent(rec[2]["CATASTROPHIC"])),
                !.FFSI = Cell(rec[3]),
                !.EXTRA = Cell(rec[4])]

IsPlaceholder(row) ==
    /\ ~row.MINOR.set /\ ~row.MODERATE.set /\ ~row.SERIOUS.set /\ ~row.SEVERE.set
    /\ ~row.CATASTROPHIC.set /\ ~row.FFSI.set /\ ~row.EXTRA.set

\* The row position of a record, without the offset of its batch
row_index_local(start_index, batch_index) == IntOf(batch_index)

\* idx = start_index + int(batch_index)
row_index(start_index, batch_index) == start_index + IntOf(batch_index)

\* The body of the loop over result_files for one file: int(batch_id) raises
\* ValueError for a text that is no number, output_lsrs.loc[idx] raises KeyError
\* for an idx that is no row of the table.  output_lsrs.loc[idx][column] = value
\* is a chained assignment: it writes to the row object output_lsrs.loc[idx]
\* gives, which pandas makes a view of the table or a copy of the row depending
\* on its version and on the block layout of the frame (is_view); a write to a
\* copy leaves the table as it was.
MergeFile(table, dir, json_file, batch_size, is_view) ==
    LET batch_results == read_json_results(dir, json_file)
        start_index == BatchIdOf(json_file) * batch_size
        row_of == [k \in DOMAIN batch_results |-> row_index(start_index, k)]
    IN IF ~IsDigits(IdText(json_file))
       THEN RaisedBy("ValueError")
       ELSE IF \E k \in DOMAIN row_of : row_of[k] \notin DOMAIN table
       THEN RaisedBy("KeyError")
       ELSE [ok |-> TRUE,
             value |-> [i \in DOMAIN table |->
                          IF is_view /\ \E k \in DOMAIN row_of : row_of[k] = i
                          THEN FilledRow(table[i],
                                   batch_results[CHOOSE k \in DOMAIN row_of : row_of[k] = i])
                          ELSE table[i]]]

RECURSIVE MergeFiles(_, _, _, _, _)
\* The loop over result_files, in the order of the listing
MergeFiles(table, dir, files, batch_size, is_view) ==
    IF files = <<>> THEN [ok |-> TRUE, value |-> table]
    ELSE LET one == MergeFile(table, dir, Head(files), batch_size, is_view)
         IN IF ~one.ok THEN one
            ELSE MergeFiles(one.value, dir, Tail(files), batch_size, is_view)

RECURSIVE Orders(_)
\* The orders in which a directory listing may return a set of files
Orders(files) ==
    IF files = {} THEN {<<>>}
    ELSE UNION {{<<f>> \o rest : rest \in Orders(files \ {f})} : f \in files}

\* The table before any artifact is merged: one row per report, 0-based
FreshTable(reports) == [i \in 0..(Len(reports) - 1) |-> EmptyRow(reports[i + 1])]

\* ------------------------------------------------------------ initial states
\* The slice taken from the head of the dataset whatever the start index
Slice_from_head(reports, start_idx, end_idx) == SubSeq(reports, 1, end_idx - start_idx + 1)

\* lsr_reports.iloc[start_idx : end_idx + 1]
Slice(reports, start_idx, end_idx) == SubSeq(reports, start_idx + 1, end_idx + 1)

\* What the service answered throughout an earlier run
PriorText == <<"{", "MIXED", "}">>

\* The artifact an earlier invocation left for a batch of the plan
PriorArtifact(reports, plan, b) ==
    LET remarks == Slice(reports, plan[b].indices[1], plan[b].indices[2])
    IN json_dump(classify_lsr_remarks(remarks, [i \in 0..(Len(remarks) - 1) |-> Reply(PriorText)],
                                      NoPace).processed)

\* A results directory holding artifacts of the run for the batch ids given: those
\* of the plan as an earlier invocation wrote them, the others left by a run with
\* another batch size
PriorDir(reports, batch_size, ids) ==
    LET plan == define_batches(Len(reports), batch_size)
    IN [f \in {batch_filename(LsrUuid, b) : b \in ids} |->
          IF BatchIdOf(f) \in DOMAIN plan THEN PriorArtifact(reports, plan, BatchIdOf(f))
          ELSE <<>>]

\* No response is under extraction
Pending == RaisedBy("pending")

\* The state of a process entering main()
Entering(reports, batch_size, ceiling, dir) ==
    /\ lsr_reports = reports
    /\ BATCH_SIZE = batch_size
    /\ MAX_BATCHES = ceiling
    /\ results_dir = dir
    /\ at_start = dir
    /\ batches = <<>>
    /\ pc = "start"
    /\ batch_id = -1
    /\ processed_lsrs = Unbound
    /\ output_lsrs = Unbound
    /\ error = "none"
    /\ attempts = <<>>
    /\ api_calls = <<>>
    /\ pace = NoPace
    /\ writes = <<>>
    /\ last_fatal = -1

Init ==
    \E n \in 0..MaxItems, blank_first \in BOOLEAN, batch_size \in 0..MaxBatchSize,
       ceiling \in 0..MaxCeiling, ids \in SUBSET (0..MaxItems) :
        /\ Entering(Reports(n, blank_first), batch_size, ceiling,
                    PriorDir(Reports(n, blank_first), batch_size, ids))
        /\ result = <<>>
        /\ record = Pending

\* ------------------------------------------------------------ main(): plan and scan
\* main() line 64: batches = define_batches(lsr_reports.shape[0], BATCH_SIZE)
DefineBatches ==
    /\ pc = "start"
    /\ batches' = define_batches(Len(lsr_reports), BATCH_SIZE)
    /\ pc' = "planned"
    /\ UNCHANGED <<lsr_reports, BATCH_SIZE, MAX_BATCHES, results_dir, batch_id,
                   processed_lsrs, output_lsrs, error, attempts, api_calls,
                   pace, writes, at_start, last_fatal, result, record>>

\* The for loop is left (exhausted, or by break): "if processed_lsrs:" reads a local
\* that no iteration has assigned when the loop body never ran
LoopExit(last) ==
    /\ batch_id' = batch_id
    /\ IF last.state = "unbound"
       THEN pc' = "aborted" /\ error' = "UnboundLocalError"
       ELSE pc' = "consolidate" /\ error' = error

\* The end of the iteration for batch b: the MAX_BATCHES test, then the next key
NextIteration(b, last) ==
    IF MAX_BATCHES # 0 /\ b = MAX_BATCHES
    THEN LoopExit(last)
    ELSE IF \E later \in BatchIds(batches) : later > b
         THEN /\ batch_id' = CHOOSE later \in BatchIds(batches) :
                               later > b /\ \A x \in BatchIds(batches) : x > b => later <= x
              /\ pc' = "loop"
              /\ error' = error
         ELSE LoopExit(last)

\* main() lines 68-70: batches = match_batch_results(lsr_uuid, batches, RESULTS_OUTPUT)
MatchBatchResults ==
    /\ pc = "planned"
    /\ \E out \in match_batch_results(LsrUuid, batches, results_dir) :
        /\ batches' = out.batches
        /\ IF out.error # "none"
           THEN pc' = "aborted" /\ error' = out.error
           ELSE pc' = "scanned" /\ error' = error
    /\ UNCHANGED <<lsr_reports, BATCH_SIZE, MAX_BATCHES, results_dir, batch_id,
                   processed_lsrs, output_lsrs, attempts, api_calls, pace, writes, at_start,
                   last_fatal, result, record>>

\* main() lines 75-87: the for loop takes its first key, if the plan has one
EnterLoop ==
    /\ pc = "scanned"
    /\ IF BatchIds(batches) = {}
       THEN LoopExit(processed_lsrs)
       ELSE /\ pc' = "loop"
            /\ error' = error
            /\ batch_id' = CHOOSE b \in BatchIds(batches) : \A x \in BatchIds(batches) : b <= x
    /\ UNCHANGED <<lsr_reports, BATCH_SIZE, MAX_BATCHES, results_dir, batches,
                   processed_lsrs, output_lsrs, attempts, api_calls, pace, writes, at_start,
                   last_fatal, result, record>>

\* ------------------------------------------------------------ main(): the driver loop
\* The texts the service answers with in the driver's runs
DriverTexts ==
    {<<"text", "NL", "NL", "{", "C100", "}", "more">>,   \* an object and extra text
     <<"text">>,                                          \* one paragraph, no object
     <<"text", "NL", "NL", "text">>,                      \* two paragraphs, no object
     <<"{", "NOCAT", "}">>}                               \* an object that lacks a class

OkTexts == {t \in DriverTexts : extract_record("r", t).ok}

\* The failures of the call in the driver's runs
DriverErrors == {"RateLimitError", "OSError", "InvalidRequestError"}

\* What ends an attempt: a failure of the call, or a text the extraction fails on
Failures ==
    {Raise(e) : e \in DriverErrors}
        \cup {Reply(t) : t \in DriverTexts \ OkTexts}

\* The answers of the service to the calls of one attempt over len items: texts the
\* extraction accepts up to item n, and a failure from there on
AttemptReplies(len) ==
    {[i \in 0..(len - 1) |-> Reply(texts[i])] : texts \in [0..(len - 1) -> OkTexts]}
        \cup UNION {{[i \in 0..(len - 1) |-> IF i < n THEN Reply(texts[i]) ELSE last] :
                        texts \in [0..(n - 1) -> OkTexts], last \in Failures} :
                    n \in 0..(len - 1)}

\* current_lsrs['remark'] of the batch of the running iteration
CurrentRemarks ==
    Slice(lsr_reports, batches[batch_id].indices[1], batches[batch_id].indices[2])

RECURSIVE BumpAll(_, _, _)
\* The calls made by an attempt, counted per item of the dataset
BumpAll(counts, calls, start_idx) ==
    IF calls = <<>> THEN counts
    ELSE BumpAll(Bump(counts, start_idx + Head(calls)), Tail(calls), start_idx)

\* main() lines 91-98 and 154-157: the batch is processed, it is skipped
SkipBatch ==
    /\ pc = "loop"
    /\ batches[batch_id].processed
    /\ processed_lsrs' = None
    /\ NextIteration(batch_id, None)
    /\ UNCHANGED <<lsr_reports, BATCH_SIZE, MAX_BATCHES, results_dir, batches, output_lsrs,
                   attempts, api_calls, pace, writes, at_start, last_fatal, result, record>>

\* main() lines 101-126: the first classify_lsr_remarks of the batch; a failure of
\* the except clause is caught and followed by wait_timeout(10), any other ends main()
FirstAttempt ==
    /\ pc = "loop"
    /\ ~batches[batch_id].processed
    /\ \E replies \in AttemptReplies(Len(CurrentRemarks)) :
        LET out == classify_lsr_remarks(CurrentRemarks, replies, pace)
        IN /\ attempts' = Bump(attempts, batch_id)
           /\ api_calls' = BumpAll(api_calls, out.calls, batches[batch_id].indices[1])
           /\ IF out.ok
              THEN /\ processed_lsrs' = Value(out.processed)
                   /\ pace' = out.pace
                   /\ pc' = "write"
                   /\ error' = error
              ELSE IF out.exc \in TransientErrors
              THEN /\ processed_lsrs' = processed_lsrs
                   /\ pace' = OnPause(out.pace)
                   /\ pc' = "retry"
                   /\ error' = error
              ELSE /\ processed_lsrs' = processed_lsrs
                   /\ pace' = out.pace
                   /\ pc' = "aborted"
                   /\ error' = out.exc
    /\ UNCHANGED <<lsr_reports, BATCH_SIZE, MAX_BATCHES, results_dir, batches, batch_id,
                   output_lsrs, writes, at_start, last_fatal, result, record>>

\* The retry fails and the batch is marked processed all the same
RetryFailed_marked(out) ==
    /\ processed_lsrs' = processed_lsrs
    /\ batches' = [batches EXCEPT ![batch_id].processed = TRUE]
    /\ pc' = "aborted"
    /\ error' = out.exc

\* The retry fails and a transient failure is retried once more
RetryFailed_again(out) ==
    /\ processed_lsrs' = processed_lsrs
    /\ batches' = batches
    /\ IF out.exc \in TransientErrors
       THEN pc' = "retry" /\ error' = error
       ELSE pc' = "aborted" /\ error' = out.exc

\* The classify_lsr_remarks of the except clause raises: nothing catches it, and
\* main() ends there
RetryFailed(out) ==
    /\ processed_lsrs' = processed_lsrs
    /\ batches' = batches
    /\ pc' = "aborted"
    /\ error' = out.exc

\* main() lines 127-131: the classify_lsr_remarks of the except clause
RetryAttempt ==
    /\ pc = "retry"
    /\ \E replies \in AttemptReplies(Len(CurrentRemarks)) :
        LET out == classify_lsr_remarks(CurrentRemarks, replies, pace)
        IN /\ attempts' = Bump(attempts, batch_id)
           /\ api_calls' = BumpAll(api_calls, out.calls, batches[batch_id].indices[1])
           /\ pace' = out.pace
           /\ IF out.ok
              THEN /\ processed_lsrs' = Value(out.processed)
                   /\ batches' = batches
                   /\ pc' = "write"
                   /\ error' = error
              ELSE RetryFailed(out)
    /\ UNCHANGED <<lsr_reports, BATCH_SIZE, MAX_BATCHES, results_dir, batch_id,
                   output_lsrs, writes, at_start, last_fatal, result, record>>

\* main() lines 136-138: write_results_json(processed_lsrs, batch_path)
WriteArtifact ==
    /\ pc = "write"
    /\ results_dir' = write_results_json(results_dir, batch_filename(LsrUuid, batch_id),
                                         processed_lsrs.value)
    /\ writes' = Bump(writes, batch_id)
    /\ pc' = "mark"
    /\ UNCHANGED <<lsr_reports, BATCH_SIZE, MAX_BATCHES, batches, batch_id, processed_lsrs,
                   output_lsrs, error, attempts, api_calls, pace, at_start,
                   last_fatal, result, record>>

\* main() lines 144-157: the batch is marked processed, then the MAX_BATCHES test
MarkProcessed ==
    /\ pc = "mark"
    /\ batches' = [batches EXCEPT ![batch_id].processed = TRUE]
    /\ NextIteration(batch_id, processed_lsrs)
    /\ UNCHANGED <<lsr_reports, BATCH_SIZE, MAX_BATCHES, results_dir, processed_lsrs,
                   output_lsrs, attempts, api_calls, pace, writes, at_start,
                   last_fatal, result, record>>

\* main() lines 176-229: the consolidation of the artifacts of the run
Consolidate ==
    /\ pc = "consolidate"
    /\ LET result_files == result_files_of(LsrUuid, results_dir)
       IN IF result_files = {}
          THEN /\ pc' = "done"
               /\ UNCHANGED <<results_dir, output_lsrs, error>>
          ELSE \E merged \in {MergeFiles(FreshTable(lsr_reports), results_dir, order,
                                          BATCH_SIZE, is_view) :
                                   order \in Orders(result_files), is_view \in BOOLEAN} :
                   IF merged.ok
                   THEN /\ output_lsrs' = Value(merged.value)
                        /\ results_dir' = [f \in (DOMAIN results_dir)
                                                  \cup {classified_filename(LsrUuid)} |->
                                             IF f = classified_filename(LsrUuid)
                                             THEN merged.value ELSE results_dir[f]]
                        /\ pc' = "done"
                        /\ error' = error
                   ELSE /\ pc' = "aborted"
                        /\ error' = merged.exc
                        /\ UNCHANGED <<results_dir, output_lsrs>>
    /\ UNCHANGED <<lsr_reports, BATCH_SIZE, MAX_BATCHES, batches, batch_id, processed_lsrs,
                   attempts, api_calls, pace, writes, at_start, last_fatal, result, record>>

\* The script is run again on the same dataset and results directory
NewInvocation ==
    /\ pc \in {"done", "aborted"}
    /\ at_start' = results_dir
    /\ last_fatal' = IF pc = "aborted" /\ Count(attempts, batch_id) = 2 THEN batch_id ELSE -1
    /\ batches' = <<>>
    /\ pc' = "start"
    /\ batch_id' = -1
    /\ processed_lsrs' = Unbound
    /\ output_lsrs' = Unbound
    /\ error' = "none"
    /\ attempts' = <<>>
    /\ api_calls' = <<>>
    /\ pace' = NoPace
    /\ UNCHANGED <<lsr_reports, BATCH_SIZE, MAX_BATCHES, results_dir, writes, result, record>>

Next ==
    \/ DefineBatches
    \/ MatchBatchResults
    \/ EnterLoop
    \/ SkipBatch
    \/ FirstAttempt
    \/ RetryAttempt
    \/ WriteArtifact
    \/ MarkProcessed
    \/ Consolidate
    \/ NewInvocation

Spec == Init /\ [][Next]_vars

\* ------------------------------------------------------------ one run of main()
NextOnce ==
    \/ DefineBatches
    \/ MatchBatchResults
    \/ EnterLoop
    \/ SkipBatch
    \/ FirstAttempt
    \/ RetryAttempt
    \/ WriteArtifact
    \/ MarkProcessed
    \/ Consolidate

SpecOnce == Init /\ [][NextOnce]_vars

\* ------------------------------------------------------------ the script run to completion
\* The first invocation finds the results directory empty
InitLive ==
    \E n \in 0..MaxItems, blank_first \in BOOLEAN, batch_size \in 0..MaxBatchSize,
       ceiling \in 0..MaxCeiling :
        /\ Entering(Reports(n, blank_first), batch_size, ceiling, <<>>)
        /\ result = <<>>
        /\ record = Pending

\* main() is at a call of classify_lsr_remarks: line 115, or line 127
AttemptPending == pc = "retry" \/ (pc = "loop" /\ ~batches[batch_id].processed)

\* The call returns the records of the batch
AttemptSucceeds == AttemptPending /\ pc' = "write"

\* main() has returned or raised
Ended == pc \in {"done", "aborted"}

\* The script is run again after every invocation; every invocation runs on to
\* its end (main() is sequential code whose calls return or raise); the service
\* does not fail for ever: when calls of classify_lsr_remarks are made again and
\* again, again and again one returns the records of its batch
SpecLive ==
    /\ InitLive
    /\ [][Next]_vars
    /\ WF_vars(NewInvocation)
    /\ []<>Ended
    /\ ([]<>AttemptPending) => []<><<AttemptSucceeds>>_vars

\* ------------------------------------------------------------ the consolidation alone
\* Files of the results directory that are no artifact of the run
OtherFiles ==
    {batch_filename(OtherUuid, 0), batch_filename(OtherUuid, 1), <<"notes", ".", "json">>}

\* main() at line 176, the loop over the batches left: the results directory is
\* as the consolidation finds it, whatever has become of the artifacts since
InitConsolidate ==
    \E n \in 0..MaxItems, batch_size \in 0..MaxBatchSize, ids \in SUBSET (0..MaxItems),
       others \in SUBSET OtherFiles :
        /\ lsr_reports = Reports(n, FALSE)
        /\ BATCH_SIZE = batch_size
        /\ MAX_BATCHES = 0
        /\ results_dir = PriorDir(Reports(n, FALSE), batch_size, ids) @@ [f \in others |-> <<>>]
        /\ at_start = results_dir
        /\ batches = SetProcessed(define_batches(n, batch_size),
                                  DOMAIN define_batches(n, batch_size))
        /\ pc = "consolidate"
        /\ batch_id = -1
        /\ processed_lsrs = None
        /\ output_lsrs = Unbound
        /\ error = "none"
        /\ attempts = <<>>
        /\ api_calls = <<>>
        /\ pace = NoPace
        /\ writes = <<>>
        /\ last_fatal = -1
        /\ result = <<>>
        /\ record = Pending

SpecConsolidate == InitConsolidate /\ [][Consolidate]_vars

\* ------------------------------------------------------------ ffsi_score alone
\* The percentages a class may be given
ScoreValues == {0, 1, 9, 10, 25, 40, 50, 65, 90, 100}

\* The probabilities in the order of the classes: distributions that sum to 100
InitScore ==
    /\ Entering(Reports(1, FALSE), 1, 0, <<>>)
    /\ result \in {l \in [1..5 -> ScoreValues] : l[1] + l[2] + l[3] + l[4] + l[5] = 100}
    /\ record = Pending

\* ffsi_score of the probabilities as a dict and as a list, plain and normalized
ApplyScore ==
    /\ record = Pending
    /\ record' = [dict |-> ffsi_score(Dict(Distribution(result[1], result[2], result[3],
                                                        result[4], result[5])), FALSE),
                  list |-> ffsi_score(List(result), FALSE),
                  dict_norm |-> ffsi_score(Dict(Distribution(result[1], result[2], result[3],
                                                             result[4], result[5])), TRUE),
                  list_norm |-> ffsi_score(List(result), TRUE)]
    /\ UNCHANGED <<lsr_reports, BATCH_SIZE, MAX_BATCHES, results_dir, batches, pc, batch_id,
                   processed_lsrs, output_lsrs, error, attempts, api_calls, pace, writes,
                   at_start, last_fatal, result>>

SpecScore == InitScore /\ [][ApplyScore]_vars

\* ------------------------------------------------------------ hash_filename alone
\* Directories and file names of dataset paths; a path may end in its directory
DatasetDirs == {<<>>, <<"data", "/">>, <<".", "/", "data", "/">>, <<"/", "tmp", "/">>}
DatasetNames == {<<"lsrs.csv">>, <<"other.csv">>, <<>>}

\* Two dataset paths, each a directory and a file name
InitHash ==
    /\ Entering(Reports(1, FALSE), 1, 0, <<>>)
    /\ result \in [dir_a : DatasetDirs, name_a : DatasetNames,
                    dir_b : DatasetDirs, name_b : DatasetNames]
    /\ record = Pending

\* main() line 60, for each of the two paths
HashBoth ==
    /\ record = Pending
    /\ record' = [a |-> hash_filename(result.dir_a \o result.name_a),
                  b |-> hash_filename(result.dir_b \o result.name_b)]
    /\ UNCHANGED <<lsr_reports, BATCH_SIZE, MAX_BATCHES, results_dir, batches, pc, batch_id,
                   processed_lsrs, output_lsrs, error, attempts, api_calls, pace, writes,
                   at_start, last_fatal, result>>

SpecHash == InitHash /\ [][HashBoth]_vars

\* ------------------------------------------------------------ define_batches alone
InitPlan ==
    \E n \in 0..PlanMaxItems, batch_size \in 0..PlanMaxBatchSize :
        /\ Entering(Reports(n, FALSE), batch_size, 0, <<>>)
        /\ result = <<>>
        /\ record = Pending

SpecPlan == InitPlan /\ [][DefineBatches]_vars

\* ------------------------------------------------------------ match_batch_results alone
\* The files a results directory may hold: artifacts of the run, artifacts of
\* another dataset's run, the consolidated table of the run, a file of no run
ScanFiles ==
    {batch_filename(LsrUuid, b) : b \in 0..ScanMaxFileId}
        \cup {batch_filename(OtherUuid, b) : b \in 0..1}
        \cup {classified_filename(LsrUuid), <<"notes", ".", "json">>}

\* What the files hold: nothing, or the records of a batch of one item
ScanContents == {<<>>, PriorArtifact(Reports(1, FALSE), define_batches(1, 1), 0)}

InitScan ==
    \E n \in 0..ScanMaxItems, batch_size \in 0..MaxBatchSize, files \in SUBSET ScanFiles,
       content \in ScanContents :
        /\ Entering(Reports(n, FALSE), batch_size, 0, [f \in files |-> content])
        /\ result = <<>>
        /\ record = Pending

NextScan == DefineBatches \/ MatchBatchResults

SpecScan == InitScan /\ [][NextScan]_vars

\* ------------------------------------------------------------ match_batch_results twice
\* match_batch_results applied to the plan it returned, the directory unchanged
MatchBatchResultsAgain ==
    /\ pc = "scanned"
    /\ \E out \in match_batch_results(LsrUuid, batches, results_dir) :
        /\ batches' = out.batches
        /\ IF out.error # "none"
           THEN pc' = "aborted" /\ error' = out.error
           ELSE pc' = "rescanned" /\ error' = error
    /\ UNCHANGED <<lsr_reports, BATCH_SIZE, MAX_BATCHES, results_dir, batch_id,
                   processed_lsrs, output_lsrs, attempts, api_calls, pace, writes, at_start,
                   last_fatal, result, record>>

NextRescan == DefineBatches \/ MatchBatchResults \/ MatchBatchResultsAgain

SpecRescan == InitScan /\ [][NextRescan]_vars

\* ------------------------------------------------------------ the extraction alone
ResponseTokens == {"{", "}", "NL", "text", "M100", "NOCAT"}

\* Longer responses the service can give: two objects, an object followed by two
\* paragraphs of text
LongResponses ==
    {<<"{", a, "}", "{", b, "}">> : a, b \in {"M100", "C100"}}
        \cup {<<"{", "M100", "}", "text", "NL", "NL", "text">>}

\* The response texts of at most MaxRespLen tokens, and the longer ones
Responses == UNION {[1..k -> ResponseTokens] : k \in 0..MaxRespLen} \cup LongResponses

InitExtract ==
    /\ Entering(Reports(1, FALSE), 1, 0, <<>>)
    /\ result \in Responses
    /\ record = Pending

\* classify_lsr_remarks on the one remark of the dataset, the service answering
\* the call with the text under extraction
ClassifyOne ==
    /\ record = Pending
    /\ record' = classify_lsr_remarks(lsr_reports, [i \in {0} |-> Reply(result)], NoPace)
    /\ UNCHANGED <<lsr_reports, BATCH_SIZE, MAX_BATCHES, results_dir, batches, pc, batch_id,
                   processed_lsrs, output_lsrs, error, attempts, api_calls, pace, writes,
                   at_start, last_fatal, result>>

SpecExtract == InitExtract /\ [][ClassifyOne]_vars

\* ------------------------------------------------------------ classify_lsr_remarks alone
\* The remarks a list may hold: the empty text, one blank (read_ibw_lsrs puts it
\* for a missing remark), two blanks, a tab, a newline (cells of the CSV file that
\* hold white space are read as they are), and a remark with content
RemarkTexts == {"", " ", "  ", "\t", "\n", "r0"}

\* What the service does with a call in these runs
RemarkReplies == {Reply(<<"{", "M100", "}">>), Raise("RateLimitError")}

\* A list of remarks and, for each, what the service would answer to a call for it
InitRemarks ==
    /\ Entering(Reports(1, FALSE), 1, 0, <<>>)
    /\ \E n \in 1..MaxRemarks :
          result \in [remarks : [1..n -> RemarkTexts], replies : [0..(n - 1) -> RemarkReplies]]
    /\ record = Pending

\* classify_lsr_remarks on the list
ClassifyRemarks ==
    /\ record = Pending
    /\ record' = classify_lsr_remarks(result.remarks, result.replies, NoPace)
    /\ UNCHANGED <<lsr_reports, BATCH_SIZE, MAX_BATCHES, results_dir, batches, pc, batch_id,
                   processed_lsrs, output_lsrs, error, attempts, api_calls, pace, writes,
                   at_start, last_fatal, result>>

SpecRemarks == InitRemarks /\ [][ClassifyRemarks]_vars

\* ------------------------------------------------------------ claims
BatchLength(plan, b) == plan[b].indices[2] - plan[b].indices[1] + 1

RECURSIVE SumLengths(_, _)
SumLengths(plan, ids) ==
    IF ids = {} THEN 0
    ELSE LET b == CHOOSE x \in ids : TRUE
         IN BatchLength(plan, b) + SumLengths(plan, ids \ {b})

ArtifactOf(b) == batch_filename(LsrUuid, b)

\* The items of batch b of the plan
ItemsOf(b) == batches[b].indices[1]..batches[b].indices[2]

\* The batches whose artifact the running invocation found in the results directory
StartedWith == {b \in DOMAIN batches : ArtifactOf(b) \in DOMAIN at_start}

\* The batches classify_lsr_remarks was called for in the running invocation
Classified == {b \in DOMAIN attempts : attempts[b] > 0}

\* C1: for a batch size > 0 the plan of define_batches partitions [0, item_count):
\* the ids are 0..k-1, every range is (start, end) with start <= end and at most
\* batch_size items, batch 0 starts at 0, every other batch starts at the end of
\* the one before plus 1, the last batch ends at item_count - 1, and the lengths
\* sum to item_count.
C1_PlanPartitionsItems ==
    (pc = "planned" /\ BATCH_SIZE > 0) =>
        LET n == Len(lsr_reports)
            k == Cardinality(DOMAIN batches)
        IN /\ DOMAIN batches = 0..(k - 1)
           /\ \A b \in DOMAIN batches :
                /\ batches[b].indices[1] <= batches[b].indices[2]
                /\ BatchLength(batches, b) <= BATCH_SIZE
                /\ b = 0 => batches[b].indices[1] = 0
                /\ b > 0 => batches[b].indices[1] = batches[b - 1].indices[2] + 1
           /\ k > 0 => batches[k - 1].indices[2] = n - 1
           /\ k = 0 => n = 0
           /\ SumLengths(batches, DOMAIN batches) = n

C1_Witness ==
    /\ pc = "planned" /\ BATCH_SIZE = 5 /\ Len(lsr_reports) = 12
    /\ DOMAIN batches = 0..2 /\ batches[2].indices = <<10, 11>>

\* C2: the batches whose artifact exists when an invocation starts are neither
\* classified nor written by it: no classify_lsr_remarks and no call of the service
\* for their items, their artifact as it was; and an invocation that leaves the
\* loop has classified every other batch the ceiling lets it reach.
C2_ResumeSkipsDoneBatches ==
    /\ \A b \in StartedWith :
        /\ Count(attempts, b) = 0
        /\ \A i \in ItemsOf(b) : Count(api_calls, i) = 0
        /\ ArtifactOf(b) \in DOMAIN results_dir
        /\ results_dir[ArtifactOf(b)] = at_start[ArtifactOf(b)]
        /\ pc \in {"retry", "write", "mark"} => batch_id # b
    /\ pc \in {"consolidate", "done"} =>
        \A b \in DOMAIN batches \ StartedWith :
            (MAX_BATCHES = 0 \/ b <= MAX_BATCHES) => Count(attempts, b) >= 1

C2_Witness ==
    /\ pc = "done" /\ DOMAIN batches = {0, 1, 2} /\ StartedWith = {0, 1}
    /\ Classified = {2} /\ ArtifactOf(2) \in DOMAIN results_dir

\* The retry of the batch of the running iteration has failed
FatalState == pc = "aborted" /\ batch_id >= 0 /\ Count(attempts, batch_id) = 2

\* C3: when the retry of a batch fails the run is over with that batch not marked
\* processed, its artifact not written and no later batch attempted; the next
\* invocation finds the batch unprocessed and classifies it before any later batch.
C3_FatalLeavesBatchForResume ==
    /\ FatalState =>
        /\ ~batches[batch_id].processed
        /\ ArtifactOf(batch_id) \notin DOMAIN results_dir
        /\ \A b \in DOMAIN batches : b > batch_id => Count(attempts, b) = 0
        /\ \A b \in DOMAIN batches :
               (b > batch_id /\ ArtifactOf(b) \in DOMAIN results_dir)
                   => ArtifactOf(b) \in DOMAIN at_start
    /\ last_fatal >= 0 =>
        /\ pc = "scanned" => ~batches[last_fatal].processed
        /\ pc = "loop" => \/ batch_id <= last_fatal /\ ~batches[last_fatal].processed
                          \/ Count(attempts, last_fatal) >= 1
        /\ pc \notin {"start", "planned", "scanned", "loop"} =>
               Count(attempts, last_fatal) >= 1
        /\ \A b \in Classified : b >= last_fatal

C3_Witness ==
    /\ last_fatal = 1 /\ pc = "done" /\ Count(attempts, 1) >= 1
    /\ ArtifactOf(1) \in DOMAIN results_dir /\ ArtifactOf(1) \notin DOMAIN at_start

\* The items of the batch of the running iteration a call is made for
QueriedItems == {i \in ItemsOf(batch_id) : IsQueried(lsr_reports[i + 1])}

\* C4, in every state: no batch is attempted more than twice in an invocation; a
\* retry is pending only after one failed attempt followed by the cooldown, with
\* the batch neither written nor marked, the calls of the failed attempt ending at
\* the item that failed; a retry starts again at the first item, and when it succeeds
\* its records are one per item of the batch and are what the artifact holds.
BoundedRetryState ==
    /\ \A b \in DOMAIN attempts : attempts[b] <= 2
    /\ pc = "retry" =>
        /\ Count(attempts, batch_id) = 1
        /\ pace.last = "pause"
        /\ ~batches[batch_id].processed
        /\ ArtifactOf(batch_id) \notin DOMAIN results_dir
        /\ \A i, j \in QueriedItems : (i < j /\ Count(api_calls, j) > 0) => Count(api_calls, i) = 1
    /\ (pc \in {"write", "mark", "aborted"} /\ batch_id >= 0 /\ Count(attempts, batch_id) = 2) =>
        \A i \in QueriedItems : (\A j \in QueriedItems : i <= j) => Count(api_calls, i) = 2
    /\ (pc \in {"write", "mark"} /\ Count(attempts, batch_id) = 2) =>
        /\ DOMAIN processed_lsrs.value = 0..(BatchLength(batches, batch_id) - 1)
        /\ \A k \in DOMAIN processed_lsrs.value :
               processed_lsrs.value[k][1] = lsr_reports[batches[batch_id].indices[1] + k + 1]
        /\ \A i \in QueriedItems : Count(api_calls, i) \in {1, 2}
    /\ (pc = "mark" /\ Count(attempts, batch_id) = 2) =>
        results_dir[ArtifactOf(batch_id)] = json_dump(processed_lsrs.value)

\* C4, in every step: a pending retry is made once and ends in the write of the
\* batch or in the end of the run; after the write the batch is marked processed
\* and the run goes on with the next batch or leaves the loop.
BoundedRetryStep ==
    /\ pc = "retry" => pc' \in {"write", "aborted"}
    /\ (pc = "write" /\ Count(attempts, batch_id) = 2) =>
           /\ pc' = "mark"
           /\ results_dir'[ArtifactOf(batch_id)] = json_dump(processed_lsrs.value)
    /\ (pc = "mark" /\ Count(attempts, batch_id) = 2) =>
           /\ batches'[batch_id].processed
           /\ pc' \in {"loop", "consolidate"}
           /\ pc' = "loop" => batch_id' > batch_id

\* C4: a transient failure in a batch aborts the attempt at that item, is followed
\* by the cooldown and by one restart of the whole batch; a batch is attempted at
\* most twice in an invocation, and a retry that succeeds gives the artifact its
\* records, marks the batch processed and lets the run continue.
C4_BoundedRetry == [](BoundedRetryState) /\ [][BoundedRetryStep]_vars

C4_Witness ==
    /\ pc = "loop" /\ batch_id = 1 /\ Count(attempts, 0) = 2 /\ batches[0].processed
    /\ BatchLength(batches, 0) = 2 /\ Count(api_calls, 0) = 2 /\ Count(api_calls, 1) = 2
    /\ ArtifactOf(0) \in DOMAIN results_dir

\* The artifacts of the run in the results directory whose batch id is no key of
\* the plan
StaleArtifacts ==
    {f \in DOMAIN results_dir :
        /\ \E b \in 0..ScanMaxFileId : f = ArtifactOf(b)
        /\ BatchIdOf(f) \notin DOMAIN define_batches(Len(lsr_reports), BATCH_SIZE)}

\* The batches of the plan whose artifact is in the results directory
OnDisk == {b \in DOMAIN batches : ArtifactOf(b) \in DOMAIN results_dir}

\* C5: an artifact of the run whose batch id is no key of the plan is ignored by
\* match_batch_results: the scan ends without error and returns the plan with the
\* flags the other artifacts give it.
C5_StaleArtifactIgnored ==
    (pc \notin {"start", "planned"} /\ StaleArtifacts # {}) =>
        /\ pc = "scanned"
        /\ error = "none"
        /\ batches = [b \in DOMAIN define_batches(Len(lsr_reports), BATCH_SIZE) |->
                        [indices |-> define_batches(Len(lsr_reports), BATCH_SIZE)[b].indices,
                         processed |-> b \in OnDisk]]

\* The artifact record of item i of the dataset, for a batch size > 0
RecordOfItem(i) ==
    results_dir[ArtifactOf(i \div BATCH_SIZE)][StrDigits(i - (i \div BATCH_SIZE) * BATCH_SIZE)]

\* C6: for a batch size > 0, when every batch of the plan has its artifact the
\* consolidated table has no placeholder row, and row i holds the record at local
\* index i - batch_id * batch_size of the artifact of batch_id = i div batch_size,
\* which is the record of the remark of item i.
C6_RoundTrip ==
    (pc = "done" /\ BATCH_SIZE > 0 /\ OnDisk = DOMAIN batches) =>
        /\ output_lsrs.state = "value"
        /\ DOMAIN output_lsrs.value = 0..(Len(lsr_reports) - 1)
        /\ \A i \in DOMAIN output_lsrs.value :
            /\ ~IsPlaceholder(output_lsrs.value[i])
            /\ RecordOfItem(i)[1] = lsr_reports[i + 1]
            /\ output_lsrs.value[i] = FilledRow(EmptyRow(lsr_reports[i + 1]), RecordOfItem(i))
        /\ (Len(lsr_reports) > 0) =>
               results_dir[classified_filename(LsrUuid)] = output_lsrs.value

\* A text holds a {...} object: a "{" with a "}" somewhere after it
HasObject(text) == \E i, j \in 1..Len(text) : i < j /\ text[i] = "{" /\ text[j] = "}"

\* C7: for every response text without a {...} object classify_lsr_remarks gives
\* the item a record of five zero probabilities and the score 0.0, and raises
\* nothing.
C7_NoObjectGivesZeroRecord ==
    (record # Pending /\ ~HasObject(result)) =>
        /\ record.ok
        /\ record.processed[0][2] = ZeroProbs
        /\ record.processed[0][3].num = 0

\* C8: in an invocation no call of the service follows the call before it without
\* a pause in between, the last call for one batch and the first call for the next
\* included.
C8_PauseBetweenCalls == ~pace.unpaced

\* C9: with a ceiling MAX_BATCHES > 0 no invocation classifies and marks
\* processed more than MAX_BATCHES batches.
C9_CeilingBoundsBatches ==
    MAX_BATCHES > 0 =>
        Cardinality({b \in Classified : batches[b].processed}) <= MAX_BATCHES

\* No json file of the results directory holds the run identifier
NoRunFile == ~\E f \in DOMAIN results_dir : Contains(f, LsrUuid) /\ EndsWith(f, JsonExt)

C10_WitnessNoRunFile ==
    /\ pc = "scanned" /\ NoRunFile /\ DOMAIN batches = {0, 1}
    /\ batch_filename(OtherUuid, 0) \in DOMAIN results_dir

\* The batch ids of a plan whose flag is set
ProcessedIds(plan) == {b \in DOMAIN plan : plan[b].processed}

\* C11: match_batch_results applied a second time to the plan it returned, against
\* the same directory, returns without error, and the set of processed batch ids
\* (and the whole plan) is what the first application gave.
C11_ScanIdempotent ==
    [][(pc = "scanned" /\ pc' # "scanned") =>
          /\ pc' = "rescanned"
          /\ error' = "none"
          /\ ProcessedIds(batches') = ProcessedIds(batches)
          /\ batches' = batches]_vars

C11_Witness ==
    /\ pc = "rescanned" /\ DOMAIN batches = {0, 1, 2}
    /\ ProcessedIds(batches) = {0, 2}
    /\ batch_filename(OtherUuid, 1) \in DOMAIN results_dir

\* C12: when some but not all batches of the plan have their artifact, the
\* consolidation ends without error, and row i of its table is an empty placeholder
\* if and only if the batch that holds item i has no artifact.
C12_PartialConsolidation ==
    (pc = "done" /\ OnDisk # {} /\ OnDisk # DOMAIN batches) =>
        /\ error = "none"
        /\ output_lsrs.state = "value"
        /\ DOMAIN output_lsrs.value = 0..(Len(lsr_reports) - 1)
        /\ \A i \in DOMAIN output_lsrs.value :
               IsPlaceholder(output_lsrs.value[i])
                   <=> \E b \in DOMAIN batches \ OnDisk : i \in ItemsOf(b)

\* The tables the consolidation of the artifacts in the results directory gives,
\* one per order of the directory listing, for one way of the row assignment
TablesOfOrders(is_view) ==
    {MergeFiles(FreshTable(lsr_reports), results_dir, order, BATCH_SIZE, is_view) :
        order \in Orders(result_files_of(LsrUuid, results_dir))}

C14_NoArtifactNoOutput ==
    [][pc = "consolidate" =>
          /\ NoRunFile =>
                /\ pc' = "done"
                /\ error' = "none"
                /\ output_lsrs' = output_lsrs
                /\ results_dir' = results_dir
          /\ results_dir' # results_dir =>
                /\ ~NoRunFile
                /\ DOMAIN results_dir' = DOMAIN results_dir \cup {classified_filename(LsrUuid)}
                /\ \A f \in DOMAIN results_dir \ {classified_filename(LsrUuid)} :
                       results_dir'[f] = results_dir[f]]_vars

C14_Witness ==
    /\ pc = "done" /\ NoRunFile /\ Len(lsr_reports) = 2
    /\ batch_filename(OtherUuid, 0) \in DOMAIN results_dir
    /\ classified_filename(LsrUuid) \notin DOMAIN results_dir
    /\ output_lsrs = Unbound

RECURSIVE WeightedSum(_, _)
\* p[1] * 1 + ... + p[k] * k
WeightedSum(p, k) == IF k = 0 THEN 0 ELSE WeightedSum(p, k - 1) + p[k] * k

\* C15: for percentages that sum to 100 ffsi_score raises nothing and returns
\* sum(p_i * w_i) / 100 with the weights 1..5, a value in [1, 5], which is 1 for
\* MINOR = 100 and 5 for CATASTROPHIC = 100; the dict and the list give the same
\* score; the normalized score is the score divided by 5.
C15_ScoreOfDistribution ==
    record # Pending =>
        /\ record.dict.ok /\ record.list.ok /\ record.dict_norm.ok /\ record.list_norm.ok
        /\ record.dict.value.num = WeightedSum(result, 5)
        /\ record.dict.value.den = 100
        /\ 1 * record.dict.value.den <= record.dict.value.num
        /\ record.dict.value.num <= 5 * record.dict.value.den
        /\ result[1] = 100 => record.dict.value.num = 1 * record.dict.value.den
        /\ result[5] = 100 => record.dict.value.num = 5 * record.dict.value.den
        /\ record.list = record.dict
        /\ record.list_norm = record.dict_norm
        /\ 5 * record.dict_norm.value.num * record.dict.value.den
               = record.dict.value.num * record.dict_norm.value.den

C15_Witness ==
    /\ record # Pending /\ result = <<0, 10, 25, 65, 0>>
    /\ record.list.value = [num |-> 355, den |-> 100]
    /\ record.dict_norm.value = [num |-> 355, den |-> 500]

\* C16: two different dataset paths never get the same identifier from
\* hash_filename, two paths with the same file name in different directories
\* included.
C16_DifferentPathsDifferentIds ==
    (record # Pending /\ result.dir_a \o result.name_a # result.dir_b \o result.name_b) =>
        record.a # record.b

\* C17: define_batches raises nothing, and for an item count of 0 its plan has no
\* batch, whatever the batch size, the size 0 that asks for a single batch included.
C17_NoItemsEmptyPlan ==
    pc = "planned" =>
        /\ error = "none"
        /\ Len(lsr_reports) = 0 => DOMAIN batches = {}

\* The artifacts of the run in a results directory
ArtifactsIn(dir) == {f \in DOMAIN dir : Contains(f, LsrUuid) /\ EndsWith(f, JsonExt)}

\* C18, in every step of every invocation: an artifact that exists stays, with its
\* content; write_results_json is called for a batch only when the batch has no
\* artifact, and leaves it with one.
WriteOnceStep ==
    /\ \A f \in ArtifactsIn(results_dir) :
           f \in DOMAIN results_dir' /\ results_dir'[f] = results_dir[f]
    /\ \A b \in DOMAIN writes' :
           Count(writes, b) # writes'[b] =>
               /\ ArtifactOf(b) \notin DOMAIN results_dir
               /\ ArtifactOf(b) \in DOMAIN results_dir'

\* C18: over any sequence of invocations on one results directory, those ended by
\* a failure or by the ceiling included, the artifact of a batch is written at most
\* once, and once it exists it is neither changed nor removed.
C18_WriteOnce ==
    [](\A b \in DOMAIN writes : writes[b] <= 1) /\ [][WriteOnceStep]_vars

C18_Witness ==
    /\ last_fatal = 1 /\ pc = "mark" /\ batch_id = 1
    /\ Count(writes, 0) = 1 /\ Count(writes, 1) = 1
    /\ ArtifactOf(0) \in DOMAIN at_start /\ ArtifactOf(1) \notin DOMAIN at_start

\* C19, in every state from the return of the scan to the end of the loop: a
\* batch whose flag is set has its artifact in the results directory.
FlagImpliesArtifact ==
    pc \in {"scanned", "loop", "retry", "write", "mark", "consolidate", "done", "aborted"} =>
        \A b \in DOMAIN batches : batches[b].processed => ArtifactOf(b) \in DOMAIN results_dir

\* C19, in every step of the loop: a flag is set only for the batch of the running
\* iteration, after its artifact was written with one record for each of its items,
\* every one of them classified by the attempt that succeeded.
FlagSetStep ==
    \A b \in DOMAIN batches :
        (pc \in {"loop", "retry", "write", "mark"} /\ b \in DOMAIN batches'
             /\ ~batches[b].processed /\ batches'[b].processed) =>
            /\ pc = "mark" /\ b = batch_id
            /\ processed_lsrs.state = "value"
            /\ DOMAIN processed_lsrs.value = 0..(BatchLength(batches, b) - 1)
            /\ ArtifactOf(b) \in DOMAIN results_dir
            /\ results_dir[ArtifactOf(b)] = json_dump(processed_lsrs.value)
            /\ Count(writes, b) = 1
            /\ \A i \in QueriedItems : Count(api_calls, i) >= 1

\* C19: after the scan and at every step of the driver loop a set flag implies the
\* artifact of the batch; the driver writes the artifact before it sets the flag
\* and sets it only after the whole batch was classified.
C19_ArtifactBeforeFlag == [](FlagImpliesArtifact) /\ [][FlagSetStep]_vars

C19_Witness ==
    /\ pc = "loop" /\ batch_id = 2 /\ BatchLength(batches, 1) = 1
    /\ batches[0].processed /\ batches[1].processed /\ ~batches[2].processed
    /\ Count(writes, 1) = 1 /\ Count(attempts, 1) = 2 /\ Count(attempts, 0) = 0

\* The position of the first "{" of a text that holds one
FirstOpen(text) == CHOOSE i \in 1..Len(text) : text[i] = "{" /\ \A k \in 1..(i - 1) : text[k] # "{"

RECURSIVE MatchingClose(_, _, _)
\* The position of the "}" that closes the object open at depth before position i,
\* 0 when the text ends first
MatchingClose(text, i, depth) ==
    IF i > Len(text) THEN 0
    ELSE IF text[i] = "{" THEN MatchingClose(text, i + 1, depth + 1)
    ELSE IF text[i] = "}" THEN IF depth = 1 THEN i ELSE MatchingClose(text, i + 1, depth - 1)
    ELSE MatchingClose(text, i + 1, depth)

\* The text has a first top-level {...} object
HasFirstObject(text) == Contains(text, "{") /\ MatchingClose(text, FirstOpen(text) + 1, 1) > 0

\* The first top-level {...} object of the text, braces included
FirstObject(text) == SubSeq(text, FirstOpen(text), MatchingClose(text, FirstOpen(text) + 1, 1))

\* All of the text that follows the last "}"
AfterLastClose(text) ==
    LET last == CHOOSE j \in 1..Len(text) : text[j] = "}" /\ \A k \in (j + 1)..Len(text) : text[k] # "}"
    IN SubSeq(text, last + 1, Len(text))

\* C20: for every response text whose first top-level {...} object is a
\* distribution over the five classes, classify_lsr_remarks stores that object's
\* probabilities as the payload of the record and all of the text that follows
\* the last "}" as its extra text, also when the text holds more than one object.
C20_FirstObjectIsPayload ==
    (/\ record # Pending
     /\ HasFirstObject(result)
     /\ json_loads(FirstObject(result)).ok
     /\ DOMAIN json_loads(FirstObject(result)).value = ClassSet) =>
        /\ record.ok
        /\ record.processed[0][2] = json_loads(FirstObject(result)).value
        /\ record.processed[0][4] = AfterLastClose(result)

\* A text that is empty or holds white space only
IsBlank(text) == text \in {"", " ", "  ", "\t", "\n"}

\* The number of calls of the service made for item i
CallsFor(calls, i) == Cardinality({k \in 1..Len(calls) : calls[k] = i})

\* The record of an item that was not sent to the service
NoContentRecord(remark) ==
    <<remark, ZeroProbs, [num |-> 0, den |-> 100], <<"NO REMARK FOR THIS LSR!">>>>

\* C21: classify_lsr_remarks makes no call of the service for an item whose text
\* is empty or white space only and gives it the record of zero probabilities,
\* score 0.0 and the fixed extra text; for every other item it reaches it makes
\* exactly one call.
C21_BlankNotQueried ==
    record # Pending =>
        \A i \in 0..(Len(result.remarks) - 1) :
            LET remark == result.remarks[i + 1]
            IN IF IsBlank(remark)
               THEN /\ CallsFor(record.calls, i) = 0
                    /\ record.ok => record.processed[i] = NoContentRecord(remark)
               ELSE /\ CallsFor(record.calls, i) <= 1
                    /\ record.ok => CallsFor(record.calls, i) = 1

\* The failures of an attempt that main() does not catch: of the call, of
\* json.loads, of ffsi_score
NonTransient == {"InvalidRequestError", "JSONDecodeError", "KeyError"}

\* C22, the step of an attempt that ends main(): a failure outside the except
\* clause ends the invocation with the attempt that raised it, the first attempt
\* being the only one of the batch then; nothing is written and no flag changes.
NonTransientFailureStep ==
    (pc \in {"loop", "retry"} /\ pc' = "aborted" /\ error' \notin TransientErrors) =>
        /\ error' \in NonTransient
        /\ batch_id' = batch_id
        /\ attempts' = Bump(attempts, batch_id)
        /\ pc = "loop" => attempts'[batch_id] = 1
        /\ results_dir' = results_dir
        /\ writes' = writes
        /\ ArtifactOf(batch_id) \notin DOMAIN results_dir'
        /\ batches' = batches
        /\ ~batches'[batch_id].processed

\* C22, after the failure: the invocation does nothing more, the script can only
\* be run again
AbortedStep == pc = "aborted" => (pc' = "start" /\ results_dir' = results_dir /\ writes' = writes)

Rewritten(dir) == [f \in DOMAIN dir |-> <<"other content">>]

\* C23, a step of the scan: the directory is as it was, the plan has the ids and
\* the ranges it had, no flag goes from true to false, and the outcome is one the
\* scan has for the same file names whatever the files hold.
ScanStep ==
    (pc \in {"planned", "scanned"} /\ pc' # pc) =>
        /\ results_dir' = results_dir
        /\ DOMAIN batches' = DOMAIN batches
        /\ \A b \in DOMAIN batches :
              /\ batches'[b].indices = batches[b].indices
              /\ batches[b].processed => batches'[b].processed
        /\ \E out \in match_batch_results(LsrUuid, batches, Rewritten(results_dir)) :
              batches' = out.batches /\ (out.error # "none" <=> pc' = "aborted")

\* C23: match_batch_results changes nothing but processed flags, reads no
\* content of a file, and never turns a flag from true to false.
C23_ScanChangesOnlyFlags == [][ScanStep]_vars

C23_Witness ==
    /\ pc = "rescanned"
    /\ \E b \in DOMAIN batches : batches[b].processed
    /\ \E b \in DOMAIN batches : ~batches[b].processed
    /\ \E f \in DOMAIN results_dir : results_dir[f] # <<>>
    /\ Cardinality(DOMAIN results_dir) >= 3

\* The artifact of batch b holds one record for each item of the batch, keyed by
\* the local indices, the record at j being that of item start + j
CompleteArtifact(plan, b) ==
    LET start == plan[b].indices[1]
        end == plan[b].indices[2]
    IN /\ ArtifactOf(b) \in DOMAIN results_dir
       /\ DOMAIN results_dir[ArtifactOf(b)] = {StrDigits(j) : j \in 0..(end - start)}
       /\ Cardinality(DOMAIN results_dir[ArtifactOf(b)]) = end - start + 1
       /\ \A j \in 0..(end - start) :
             results_dir[ArtifactOf(b)][StrDigits(j)][1] = lsr_reports[start + j + 1]

\* C24, every artifact the driver has written, in this invocation or one before
WrittenArtifactsComplete ==
    LET plan == define_batches(Len(lsr_reports), BATCH_SIZE)
    IN \A b \in DOMAIN writes :
          writes[b] > 0 => (b \in DOMAIN plan /\ CompleteArtifact(plan, b))

\* C24, the step that writes: the attempt before it returned a record for every
\* item of the batch, having called the service for each one with content
WriteStep ==
    writes' # writes =>
        /\ pc = "write" /\ writes' = Bump(writes, batch_id)
        /\ processed_lsrs.state = "value"
        /\ DOMAIN processed_lsrs.value = 0..(BatchLength(batches, batch_id) - 1)
        /\ \A i \in ItemsOf(batch_id) :
              IsQueried(lsr_reports[i + 1]) => Count(api_calls, i) >= 1

\* C24: every artifact the driver writes for a batch with range (start, end) holds
\* exactly end - start + 1 records keyed 0..end - start, the record at j having the
\* text of item start + j; no artifact is written for a batch with an item that
\* was not classified.
C24_ArtifactComplete == [](WrittenArtifactsComplete) /\ [][WriteStep]_vars

C24_Witness ==
    /\ pc = "mark" /\ batch_id = 1 /\ BatchLength(batches, 0) = 2
    /\ Count(writes, 1) = 1 /\ Count(attempts, 1) = 2
    /\ lsr_reports[1] = BlankRemark /\ Count(writes, 0) = 1
    /\ results_dir[ArtifactOf(0)][<<"1">>][1] = lsr_reports[2]
    /\ results_dir[ArtifactOf(1)][<<"0">>][1] = lsr_reports[3]

\* C26: an invocation over an empty dataset with a batch size > 0, the results
\* directory empty, has an empty plan, calls the service for nothing, writes no
\* artifact and raises no error on its way to the consolidation.
C26_EmptyRunEndsNormally ==
    (Len(lsr_reports) = 0 /\ BATCH_SIZE > 0 /\ DOMAIN at_start = {}) =>
        /\ pc # "start" => DOMAIN batches = {}
        /\ api_calls = <<>>
        /\ DOMAIN results_dir = {}
        /\ error = "none"
        /\ pc # "aborted"

\* Every batch of the plan has its artifact in the directory given
AllArtifactsIn(dir) ==
    \A b \in DOMAIN define_batches(Len(lsr_reports), BATCH_SIZE) : ArtifactOf(b) \in DOMAIN dir

\* C25, progress: eventually every batch of the plan has an artifact
EventuallyAllArtifacts == <>AllArtifactsIn(results_dir)

\* C25, an invocation that finds every artifact calls the service for nothing
CompleteRunMakesNoCall == AllArtifactsIn(at_start) => api_calls = <<>>

\* C25, an invocation that finds every artifact consolidates a table without a
\* placeholder row
CompleteRunFillsTable ==
    (AllArtifactsIn(at_start) /\ pc = "done" /\ Len(lsr_reports) > 0) =>
        /\ output_lsrs.state = "value"
        /\ \A i \in DOMAIN output_lsrs.value : ~IsPlaceholder(output_lsrs.value[i])

\* C25, no artifact leaves the directory
ArtifactsKept == ArtifactsIn(results_dir) \subseteq ArtifactsIn(results_dir')

\* C25: the script being run again after every invocation that aborted or halted
\* at the ceiling, and the service not failing for ever, eventually every batch of
\* the plan has an artifact; from then on an invocation calls the service for
\* nothing and its consolidation leaves no placeholder row; the set of batches
\* with an artifact never shrinks.
C25_EventualCompletion ==
    /\ EventuallyAllArtifacts
    /\ [](CompleteRunMakesNoCall)
    /\ [](CompleteRunFillsTable)
    /\ [][ArtifactsKept]_vars

====
